---- MODULE Spec2Model ----
(***************************************************************************)
(* whatlang: language detection for text files and stdin.                  *)
(*                                                                         *)
(* Spec        detect_language, stepped through its decision tree, with   *)
(*             the classifier (langdetect.detect_langs) and the name      *)
(*             lookup (pycountry.languages.get) as collaborators whose    *)
(*             outcome is chosen nondeterministically.                     *)
(*                                                                         *)
(* SpecFormat  format_output as a function of its five arguments, the      *)
(*             strings rendered character by character.                    *)
(*                                                                         *)
(* SpecDriver  the module run as a script or imported: main over its file  *)
(*             arguments or the input channel, process_file with its       *)
(*             encoding detection and decode cascade, and the calls a      *)
(*             program makes; files are sequences of bytes.                *)
(*                                                                         *)
(* Strings are sequences of one-character strings.  None is a sentinel     *)
(* that is no string of any alphabet used here.                            *)
(***************************************************************************)
EXTENDS Integers, Sequences, FiniteSets, TLC

VARIABLES
  PRINT_WARNINGS,  \* the module-level warning flag
  pc,              \* position of the current detect_language call
  text,            \* argument: the text, or None
  lang_set,        \* argument: the allow-set, or NoLangSet
  fallback_code,   \* argument
  fallback_name,   \* argument
  results,         \* local: what detect_langs returned
  classify_calls,  \* number of detect_langs invocations in this call
  classify_arg,    \* the argument of the last detect_langs invocation
  classify_outcome,\* "": not invoked, "returned" or "raised"
  lookup_outcome,  \* "": no lookup made, or one of LookupOutcomes
  lang_code,       \* local: the selected code
  confidence,      \* local: the selected probability
  ret,             \* the returned tuple
  ret_line,        \* the source line of the return statement taken (0: none)
  escaped,         \* the exception that left detect_language ("none": none)
  stderr,          \* diagnostics written during the current call
  fpc,             \* position of the format_output call
  fmt_filepath,    \* format_output argument: the path, or None
  fmt_code,        \* format_output argument
  fmt_name,        \* format_output argument
  fmt_confidence,  \* format_output argument, in units of 1 / ConfDen
  output_format,   \* format_output argument
  output,          \* what format_output returned
  module_name,     \* __name__ of the module: "__main__" when run as a script
  JSON_AVAILABLE,  \* whether `import json` succeeded
  seed,            \* DetectorFactory.seed, the classifier's seed
  mpc,             \* position of the main() call
  args,            \* main: the parsed command line
  stdin,           \* main: the input channel
  file_idx,        \* main: index of the next file argument
  exit_status,     \* status the process ended with (-1: still running)
  uncaught,        \* the exception that left main ("none": none)
  ppc,             \* position of the process_file call
  pf,              \* process_file: arguments and locals
  reads,           \* the read calls of the current top-level call
  stdout,          \* primary output channel of the current top-level call
  diag,            \* diagnostic channel (sys.stderr) of the current top-level call
  history          \* per source processed so far: what became of it

detectVars ==
  <<PRINT_WARNINGS, pc, text, lang_set, fallback_code, fallback_name,
    results, classify_calls, classify_arg, classify_outcome,
    lookup_outcome, lang_code, confidence, ret, ret_line, escaped, stderr>>

fmtVars ==
  <<fpc, fmt_filepath, fmt_code, fmt_name, fmt_confidence, output_format, output>>

drvVars ==
  <<module_name, JSON_AVAILABLE, seed, mpc, args, stdin, file_idx, exit_status,
    uncaught, ppc, pf, reads, stdout, diag, history>>

vars == <<detectVars, fmtVars, drvVars>>

---------------------------------------------------------------------------
(* Bounds and constants *)

MIN_SAMPLE_SIZE == 50

\* a text carries up to MaxPad whitespace characters on either side
MaxPad == 1

\* a source label has at most MaxLabelLen characters
MaxLabelLen == 3

\* the classifier returns at most MaxCands candidates
MaxCands == 3

\* confidences are the dyadic rationals n / 2^ConfBits, 0 <= n <= 2^ConfBits,
\* every one of them exactly a float
ConfBits == 4

ConfDen == 2 ^ ConfBits

None == <<"None">>

NoLangSet == {"None"}

NoResult == <<"no", "result", -1>>

\* no command line parsed yet
NoArgs == [files |-> <<>>]

\* no input channel looked at yet
NoStdin == [isatty |-> TRUE, content |-> <<>>]

\* no process_file call in progress
NoCall == [filepath |-> None]

---------------------------------------------------------------------------
(* Input domains *)

SeqsUpTo(S, n) == UNION {[1..k -> S] : k \in 0..n}

Pad(n) == [i \in 1..n |-> " "]

Xs(n) == [i \in 1..n |-> "x"]

\* a word with whitespace inside
Gap(n) == [i \in 1..n |-> IF i = 2 THEN " " ELSE "x"]

\* words run to one character past the minimum-length threshold
MaxWord == (MIN_SAMPLE_SIZE \div 10) + 1

Words == {Xs(n) : n \in 0..MaxWord} \cup {Gap(n) : n \in 3..MaxWord}

\* the words between padding, and one text of twice the threshold
Texts ==
  {None} \cup {Pad(i) \o w \o Pad(k) : i \in 0..MaxPad, k \in 0..MaxPad, w \in Words}
         \cup {Xs(2 * (MIN_SAMPLE_SIZE \div 10))}

Codes == {"en", "fr", "es"}

\* no allow-set, the empty one, one code, the allow-set of the spec's example
LangSets == {NoLangSet, {}, {"fr"}, {"en", "es"}}

Fallbacks == {<<"unknown", "Unknown">>, <<"xx", "Custom">>}

\* probabilities the classifier may report: 0.0, 0.5, 1.0
Probs == {0, ConfDen \div 2, ConfDen}

Candidates == [lang : Codes, prob : Probs]

Distinct(s) == \A i, j \in 1..Len(s) : i # j => s[i].lang # s[j].lang

\* detect_langs reports a language at most once; the order is the classifier's
CandidateSeqs == {s \in SeqsUpTo(Candidates, MaxCands) : Distinct(s)}

---------------------------------------------------------------------------
(* Pure helpers *)

IsSpace(c) == c = " "

RECURSIVE LStrip(_)
LStrip(s) == IF s # <<>> /\ IsSpace(Head(s)) THEN LStrip(Tail(s)) ELSE s

RECURSIVE RStrip(_)
RStrip(s) ==
  IF s # <<>> /\ IsSpace(s[Len(s)]) THEN RStrip(SubSeq(s, 1, Len(s) - 1)) ELSE s

\* str.strip()
Strip(s) == RStrip(LStrip(s))

\* `not text or text.strip() == ""`
IsEmptyText(t) == t = None \/ t = <<>> \/ Strip(t) = <<>>

\* the length check on the untrimmed text
IsTooShortUntrimmed(t) == Len(t) * 10 < MIN_SAMPLE_SIZE

\* `len(text.strip()) < MIN_SAMPLE_SIZE / 10`
IsTooShort(t) == Len(Strip(t)) * 10 < MIN_SAMPLE_SIZE

\* a test that takes every list given, the empty one too, as a restriction
RestrictedWhenGiven(ls) == ls # NoLangSet

\* `if lang_set:` None and the empty list are both false
Restricted(ls) == ls # NoLangSet /\ ls # {}

\* a filter that keeps every candidate when none is allowed
FilterAllowedOrAll(rs, ls) ==
  IF SelectSeq(rs, LAMBDA r : r.lang \in ls) = <<>>
    THEN rs
    ELSE SelectSeq(rs, LAMBDA r : r.lang \in ls)

\* [r for r in results if r.lang in lang_set]
FilterAllowed(rs, ls) == SelectSeq(rs, LAMBDA r : r.lang \in ls)

\* a fallback that ignores the caller's values
FallbackDefaults(fc, fn) == <<"unknown", "Unknown", 0>>

\* a fallback that reports the confidence found so far
FallbackKeepsConfidence(fc, fn) == <<fc, fn, confidence>>

\* `return fallback_code, fallback_name, 0.0`
Fallback(fc, fn) == <<fc, fn, 0>>

\* pycountry's display names
LanguageName(code) ==
  CASE code = "en" -> "English"
    [] code = "fr" -> "French"
    [] code = "es" -> "Spanish"
    [] OTHER -> code

\* outcomes of `pycountry.languages.get(alpha_2=lang_code)` and `lang.name`
LookupOutcomes == {"entry", "missing", "AttributeError", "LookupError"}

\* `except AttributeError:` around the name lookup
InnerCatches(exc) == exc = "AttributeError"

\* an outer handler that catches AttributeError only
OuterCatchesAttributeOnly(exc) == exc = "AttributeError"

\* `except Exception as e:` around the whole body
OuterCatches(exc) == exc \in {"AttributeError", "LookupError", "LangDetectException"}

---------------------------------------------------------------------------
(* detect_language *)

\* the module as loaded: `name` is its __name__, `has_json` tells whether
\* `import json` succeeded
Loaded(name, has_json) ==
  /\ module_name = name
  /\ JSON_AVAILABLE = has_json
  /\ seed = 0
  /\ PRINT_WARNINGS = (name = "__main__")
  /\ mpc = "idle"
  /\ args = NoArgs
  /\ stdin = NoStdin
  /\ file_idx = 0
  /\ exit_status = -1
  /\ uncaught = "none"
  /\ ppc = "idle"
  /\ pf = NoCall
  /\ reads = <<>>
  /\ stdout = <<>>
  /\ diag = <<>>
  /\ history = <<>>

\* no call of detect_language or format_output has been made
NothingCalled ==
  /\ pc = "idle"
  /\ text = None
  /\ lang_set = NoLangSet
  /\ fallback_code = "unknown"
  /\ fallback_name = "Unknown"
  /\ results = <<>>
  /\ classify_calls = 0
  /\ classify_arg = None
  /\ classify_outcome = ""
  /\ lookup_outcome = ""
  /\ lang_code = ""
  /\ confidence = 0
  /\ ret = NoResult
  /\ ret_line = 0
  /\ escaped = "none"
  /\ stderr = <<>>
  /\ fpc = "idle"
  /\ fmt_filepath = None
  /\ fmt_code = <<>>
  /\ fmt_name = <<>>
  /\ fmt_confidence = 0
  /\ output_format = "text"
  /\ output = None

\* the module imported by a program that calls its functions
Init == Loaded("whatlang", TRUE) /\ NothingCalled

Warn(msg) == IF PRINT_WARNINGS THEN Append(stderr, msg) ELSE stderr

\* a return statement at source line `line`
ReturnAt(line, value) ==
  /\ pc' = "done"
  /\ ret' = value
  /\ ret_line' = line
  /\ escaped' = "none"

\* an exception raised inside the outer try block
RaiseInBody(exc) ==
  IF OuterCatches(exc)
    THEN /\ ReturnAt(153, Fallback(fallback_code, fallback_name))
         /\ stderr' = Warn("error")
    ELSE /\ pc' = "done"
         /\ escaped' = exc
         /\ UNCHANGED <<ret, ret_line, stderr>>

set_warning_output(enabled) ==
  /\ UNCHANGED <<fmtVars, drvVars>>
  /\ pc = "idle"
  /\ PRINT_WARNINGS' = enabled
  /\ UNCHANGED <<pc, text, lang_set, fallback_code, fallback_name, results,
                 classify_calls, classify_arg, classify_outcome, lookup_outcome,
                 lang_code, confidence, ret, ret_line, escaped, stderr>>

Call(t, ls, fb) ==
  /\ UNCHANGED <<fmtVars, drvVars>>
  /\ pc = "idle"
  /\ pc' = "check_empty"
  /\ text' = t
  /\ lang_set' = ls
  /\ fallback_code' = fb[1]
  /\ fallback_name' = fb[2]
  /\ results' = <<>>
  /\ classify_calls' = 0
  /\ classify_arg' = None
  /\ classify_outcome' = ""
  /\ lookup_outcome' = ""
  /\ lang_code' = ""
  /\ confidence' = 0
  /\ ret' = NoResult
  /\ ret_line' = 0
  /\ escaped' = "none"
  /\ stderr' = <<>>
  /\ UNCHANGED PRINT_WARNINGS

EmptinessCheck ==
  /\ UNCHANGED <<fmtVars, drvVars>>
  /\ pc = "check_empty"
  /\ IF IsEmptyText(text)
       THEN /\ ReturnAt(104, Fallback(fallback_code, fallback_name))
            /\ stderr' = Warn("empty")
       ELSE /\ pc' = "check_length"
            /\ UNCHANGED <<ret, ret_line, escaped, stderr>>
  /\ UNCHANGED <<PRINT_WARNINGS, text, lang_set, fallback_code, fallback_name,
                 results, classify_calls, classify_arg, classify_outcome,
                 lookup_outcome, lang_code, confidence>>

LengthCheck ==
  /\ UNCHANGED <<fmtVars, drvVars>>
  /\ pc = "check_length"
  /\ IF IsTooShort(text)
       THEN /\ ReturnAt(110, Fallback(fallback_code, fallback_name))
            /\ stderr' = Warn("too_short")
       ELSE /\ pc' = "classify"
            /\ UNCHANGED <<ret, ret_line, escaped, stderr>>
  /\ UNCHANGED <<PRINT_WARNINGS, text, lang_set, fallback_code, fallback_name,
                 results, classify_calls, classify_arg, classify_outcome,
                 lookup_outcome, lang_code, confidence>>

\* a selection of the most probable candidate instead of the first
SelectMostProbable(rs) ==
  LET best == CHOOSE i \in 1..Len(rs) :
                /\ \A j \in 1..Len(rs) : rs[j].prob <= rs[i].prob
                /\ \A j \in 1..(i - 1) : rs[j].prob < rs[i].prob
  IN /\ pc' = "lookup"
     /\ lang_code' = rs[best].lang
     /\ confidence' = rs[best].prob
     /\ UNCHANGED <<ret, ret_line, escaped, stderr>>

\* `result = filtered_results[0]` / `result = results[0]`
Select(rs) ==
  /\ pc' = "lookup"
  /\ lang_code' = rs[1].lang
  /\ confidence' = rs[1].prob
  /\ UNCHANGED <<ret, ret_line, escaped, stderr>>

\* lines 113-138 when detect_langs returns the sequence rs
Classified(rs) ==
  /\ results' = rs
  /\ classify_outcome' = "returned"
  /\ IF Restricted(lang_set)
       THEN IF FilterAllowed(rs, lang_set) = <<>>
              THEN /\ ReturnAt(121, Fallback(fallback_code, fallback_name))
                   /\ stderr' = Warn("no_language_in_set")
                   /\ UNCHANGED <<lang_code, confidence>>
              ELSE Select(FilterAllowed(rs, lang_set))
       ELSE IF rs = <<>>
              THEN /\ ReturnAt(134, Fallback(fallback_code, fallback_name))
                   /\ UNCHANGED <<lang_code, confidence, stderr>>
              ELSE Select(rs)

\* lines 113-138 when detect_langs raises
ClassifierRaised ==
  /\ classify_outcome' = "raised"
  /\ UNCHANGED <<results, lang_code, confidence>>
  /\ IF Restricted(lang_set)
       THEN /\ ReturnAt(129, Fallback(fallback_code, fallback_name))
            /\ stderr' = Warn("restriction_failed")
       ELSE RaiseInBody("LangDetectException")

\* a classification of the trimmed text
ClassifyTrimmed ==
  /\ UNCHANGED <<fmtVars, drvVars>>
  /\ pc = "classify"
  /\ classify_calls' = classify_calls + 1
  /\ classify_arg' = Strip(text)
  /\ \/ \E rs \in CandidateSeqs : Classified(rs)
     \/ ClassifierRaised
  /\ UNCHANGED <<PRINT_WARNINGS, text, lang_set, fallback_code, fallback_name,
                 lookup_outcome>>

Classify ==
  /\ UNCHANGED <<fmtVars, drvVars>>
  /\ pc = "classify"
  /\ classify_calls' = classify_calls + 1
  /\ classify_arg' = text
  /\ \/ \E rs \in CandidateSeqs : Classified(rs)
     \/ ClassifierRaised
  /\ UNCHANGED <<PRINT_WARNINGS, text, lang_set, fallback_code, fallback_name,
                 lookup_outcome>>

\* lines 141-147, the lookup ending in outcome o
NameLookupEnds(o) ==
  /\ lookup_outcome' = o
  /\ CASE o = "entry" ->
             /\ ReturnAt(144, <<lang_code, LanguageName(lang_code), confidence>>)
             /\ UNCHANGED stderr
        [] o = "missing" ->
             /\ ReturnAt(144, <<lang_code, lang_code, confidence>>)
             /\ UNCHANGED stderr
        [] OTHER ->
             IF InnerCatches(o)
               THEN /\ ReturnAt(147, <<lang_code, lang_code, confidence>>)
                    /\ UNCHANGED stderr
               ELSE RaiseInBody(o)

NameLookup ==
  /\ UNCHANGED <<fmtVars, drvVars>>
  /\ pc = "lookup"
  /\ \E o \in LookupOutcomes : NameLookupEnds(o)
  /\ UNCHANGED <<PRINT_WARNINGS, text, lang_set, fallback_code, fallback_name,
                 results, classify_calls, classify_arg, classify_outcome,
                 lang_code, confidence>>

\* the caller has taken the result; the locals of the call are gone
Returned ==
  /\ UNCHANGED <<fmtVars, drvVars>>
  /\ pc = "done"
  /\ pc' = "idle"
  /\ text' = None
  /\ lang_set' = NoLangSet
  /\ fallback_code' = "unknown"
  /\ fallback_name' = "Unknown"
  /\ results' = <<>>
  /\ classify_calls' = 0
  /\ classify_arg' = None
  /\ classify_outcome' = ""
  /\ lookup_outcome' = ""
  /\ lang_code' = ""
  /\ confidence' = 0
  /\ ret' = NoResult
  /\ ret_line' = 0
  /\ escaped' = "none"
  /\ stderr' = <<>>
  /\ UNCHANGED PRINT_WARNINGS

Next ==
  \/ \E b \in BOOLEAN : set_warning_output(b)
  \/ Returned
  \/ pc = "idle" /\ \E t \in Texts, ls \in LangSets, fb \in Fallbacks : Call(t, ls, fb)
  \/ EmptinessCheck
  \/ LengthCheck
  \/ Classify
  \/ NameLookup

Spec == Init /\ [][Next]_vars

---------------------------------------------------------------------------
(* format_output *)

QUOTE == "\""

BSLASH == "\\"

TAB == "\t"

PathChars == {"a", "/"}

\* a file path, or None for stdin
Labels == {None} \cup SeqsUpTo(PathChars, MaxLabelLen)

FmtCodes == {<<"e", "n">>, <<QUOTE>>}

FmtNames == {<<"E">>, <<BSLASH, "n">>, <<>>}

Confidences == 0..ConfDen

Formats == {"text", "json", "csv", "bash", "other"}

DigitChars == <<"0", "1", "2", "3", "4", "5", "6", "7", "8", "9">>

Digit(d) == DigitChars[d + 1]

\* the float n / ConfDen in hundredths, rounded half up
HundredthsHalfUp(n) == (200 * n + ConfDen) \div (2 * ConfDen)

\* the float n / ConfDen in hundredths, correctly rounded (ties to even), as
\* `.2f` and round(x, 2) round the exact binary value
Hundredths(n) ==
  LET q == (100 * n) \div ConfDen
      r == (100 * n) % ConfDen
  IN IF 2 * r < ConfDen THEN q
     ELSE IF 2 * r > ConfDen THEN q + 1
     ELSE IF q % 2 = 0 THEN q ELSE q + 1

\* f"{confidence:.2f}"
Fixed2(n) ==
  LET k == Hundredths(n)
  IN <<Digit(k \div 100), ".", Digit((k \div 10) % 10), Digit(k % 10)>>

\* repr of the float round(confidence, 2), as json.dumps writes it
FloatRepr(n) ==
  LET k == Hundredths(n)
  IN IF k % 10 = 0
       THEN <<Digit(k \div 100), ".", Digit((k \div 10) % 10)>>
       ELSE <<Digit(k \div 100), ".", Digit((k \div 10) % 10), Digit(k % 10)>>

RECURSIVE LastSlash(_, _)
LastSlash(p, i) ==
  IF i = 0 THEN 0 ELSE IF p[i] = "/" THEN i ELSE LastSlash(p, i - 1)

\* a basename that keeps the whole path
BasenameWholePath(p) == p

\* os.path.basename
Basename(p) == SubSeq(p, LastSlash(p, Len(p)) + 1, Len(p))

RECURSIVE JsonEscape(_)
JsonEscape(s) ==
  IF s = <<>> THEN <<>>
  ELSE LET c == Head(s)
       IN (CASE c = QUOTE -> <<BSLASH, QUOTE>>
             [] c = BSLASH -> <<BSLASH, BSLASH>>
             [] c = TAB -> <<BSLASH, "t">>
             [] OTHER -> <<c>>) \o JsonEscape(Tail(s))

\* a string written between quotes as it is
JsonStringRaw(s) == <<QUOTE>> \o s \o <<QUOTE>>

\* json.dumps of a str
JsonString(s) == <<QUOTE>> \o JsonEscape(s) \o <<QUOTE>>

\* one "key": value member; value is already encoded
JsonMember(key, value) == JsonString(key) \o <<":", " ">> \o value

RECURSIVE JsonJoin(_)
JsonJoin(members) ==
  IF members = <<>> THEN <<>>
  ELSE IF Len(members) = 1 THEN members[1]
  ELSE members[1] \o <<",", " ">> \o JsonJoin(Tail(members))

\* json.dumps of a dict, keys in insertion order
JsonDumps(members) == <<"{">> \o JsonJoin(members) \o <<"}">>

K_file == <<"f", "i", "l", "e">>

K_language_code ==
  <<"l", "a", "n", "g", "u", "a", "g", "e", "_", "c", "o", "d", "e">>

K_language_name ==
  <<"l", "a", "n", "g", "u", "a", "g", "e", "_", "n", "a", "m", "e">>

K_confidence == <<"c", "o", "n", "f", "i", "d", "e", "n", "c", "e">>

\* the literal pieces of the bash f-strings
B_open ==
  <<"d", "e", "c", "l", "a", "r", "e", " ", "-", "A", " ", "L", "A", "N",
    "G", "_", "I", "N", "F", "O", "=", "(">>

B_file == <<"[", "f", "i", "l", "e", "]", "=", QUOTE>>

B_code_first == <<"[", "c", "o", "d", "e", "]", "=", QUOTE>>

B_code == <<QUOTE, " ", "[", "c", "o", "d", "e", "]", "=", QUOTE>>

B_name == <<QUOTE, " ", "[", "n", "a", "m", "e", "]", "=", QUOTE>>

B_confidence ==
  <<QUOTE, " ", "[", "c", "o", "n", "f", "i", "d", "e", "n", "c", "e", "]",
    "=", QUOTE>>

B_close == <<QUOTE, ")">>

\* `if filepath:` None and the empty string are both false
HasFilepath(fp) == fp # None /\ fp # <<>>

\* lines 186-202
FormatFile(fp, c, n, conf, fmt) ==
  LET base_name == Basename(fp)
  IN CASE fmt = "text" ->
            base_name \o <<":", " ">> \o c \o <<TAB>> \o n \o <<TAB>> \o Fixed2(conf)
       [] fmt = "json" ->
            JsonDumps(<< JsonMember(K_file, JsonString(base_name)),
                         JsonMember(K_language_code, JsonString(c)),
                         JsonMember(K_language_name, JsonString(n)),
                         JsonMember(K_confidence, FloatRepr(conf)) >>)
       [] fmt = "csv" ->
            base_name \o <<",">> \o c \o <<",">> \o n \o <<",">> \o Fixed2(conf)
       [] fmt = "bash" ->
            B_open \o B_file \o base_name \o B_code \o c \o B_name \o n
              \o B_confidence \o Fixed2(conf) \o B_close
       [] OTHER -> None

\* lines 203-216
FormatStdin(c, n, conf, fmt) ==
  CASE fmt = "text" -> c \o <<TAB>> \o n \o <<TAB>> \o Fixed2(conf)
    [] fmt = "json" ->
         JsonDumps(<< JsonMember(K_language_code, JsonString(c)),
                      JsonMember(K_language_name, JsonString(n)),
                      JsonMember(K_confidence, FloatRepr(conf)) >>)
    [] fmt = "csv" -> c \o <<",">> \o n \o <<",">> \o Fixed2(conf)
    [] fmt = "bash" ->
         B_open \o B_code_first \o c \o B_name \o n
           \o B_confidence \o Fixed2(conf) \o B_close
    [] OTHER -> None

\* format_output(filepath, code, name, confidence, output_format)
FormatOutput(fp, c, n, conf, fmt) ==
  IF HasFilepath(fp) THEN FormatFile(fp, c, n, conf, fmt)
                     ELSE FormatStdin(c, n, conf, fmt)

format_output(fp, c, n, conf, fmt) ==
  /\ fpc = "idle"
  /\ fpc' = "done"
  /\ fmt_filepath' = fp
  /\ fmt_code' = c
  /\ fmt_name' = n
  /\ fmt_confidence' = conf
  /\ output_format' = fmt
  /\ output' = FormatOutput(fp, c, n, conf, fmt)
  /\ UNCHANGED <<detectVars, drvVars>>

NextFormat ==
  /\ fpc = "idle"
  /\ \E fp \in Labels, c \in FmtCodes, n \in FmtNames, conf \in Confidences,
        fmt \in Formats : format_output(fp, c, n, conf, fmt)

\* format_output called from a program that imported the module
InitFormat == Init /\ PRINT_WARNINGS = FALSE

SpecFormat == InitFormat /\ [][NextFormat]_vars

---------------------------------------------------------------------------
(* Files, bytes and encodings *)

MAX_SAMPLE_SIZE == 4096

DEFAULT_SAMPLE_SIZE == 512

\* `rawf.read(min(1024, sample_size))`
SNIFF_SIZE == 1024

\* `detect_result['confidence'] > 0.7`, in tenths
SNIFF_THRESHOLD == 7

\* the long files are MaxOver characters longer than the smallest budget
MaxOver == 6

Min(a, b) == IF a < b THEN a ELSE b

Max(a, b) == IF a > b THEN a ELSE b

\* a clamp that only caps
ClampUpperOnly(n) == Min(n, MAX_SAMPLE_SIZE)

\* `max(MIN_SAMPLE_SIZE, min(sample_size, MAX_SAMPLE_SIZE))`
Clamp(n) == Max(MIN_SAMPLE_SIZE, Min(n, MAX_SAMPLE_SIZE))

\* Bytes are named by what they are to the decoders:
\*   "x"  an ASCII letter          " "  the ASCII space
\*   "L"  0xC3, the lead byte of a two-byte UTF-8 sequence
\*   "C"  0xA9, a UTF-8 continuation byte
\*   "F"  0xFF, which no UTF-8 sequence contains
AsciiBytes == {"x", " "}

\* n two-byte characters, UTF-8 encoded
Accents(n) == [i \in 1..(2 * n) |-> IF i % 2 = 1 THEN "L" ELSE "C"]

\* the paths that name a file, and the bytes of each; every other path
\* cannot be opened
Files ==
  [p \in {<<"e">>, <<"d", "/", "h">>, <<"t">>, <<"b">>, <<"u">>, <<"l">>} |->
     CASE p = <<"e">> -> <<>>
       [] p = <<"d", "/", "h">> -> Xs(2)
       [] p = <<"t">> -> Gap(MaxWord)
       [] p = <<"b">> -> Xs(2) \o <<"F">>
       [] p = <<"u">> -> Accents(4) \o Pad(MIN_SAMPLE_SIZE + MaxOver)
       [] p = <<"l">> -> Xs(4) \o Pad(MIN_SAMPLE_SIZE + MaxOver)]

Exists(path) == path \in DOMAIN Files

\* the codecs of the runtime
Codecs == {"ascii", "utf-8", "latin-1"}

\* names chardet reports; Python has no codec named EUC-TW
SniffEncodings == {"ascii", "utf-8", "EUC-TW"}

\* chardet confidences, in tenths
SniffConfs == {SNIFF_THRESHOLD, 10}

Utf8Valid(b) ==
  \A i \in 1..Len(b) :
    /\ b[i] # "F"
    /\ b[i] = "L" => (i < Len(b) /\ b[i + 1] = "C")
    /\ b[i] = "C" => (i > 1 /\ b[i - 1] = "L")

\* whether the codec decodes the bytes without error
Decodes(enc, b) ==
  CASE enc = "ascii" -> \A i \in 1..Len(b) : b[i] \in AsciiBytes
    [] enc = "utf-8" -> Utf8Valid(b)
    [] enc = "latin-1" -> TRUE

Utf8Chars(b) ==
  LET s == SelectSeq(b, LAMBDA c : c # "C")
  IN [i \in 1..Len(s) |-> IF s[i] = "L" THEN "U+E9" ELSE s[i]]

Latin1Chars(b) ==
  [i \in 1..Len(b) |->
     CASE b[i] = "L" -> "U+C3"
       [] b[i] = "C" -> "U+A9"
       [] b[i] = "F" -> "U+FF"
       [] OTHER -> b[i]]

\* the characters of bytes the codec decodes
Decode(enc, b) ==
  CASE enc = "ascii" -> b
    [] enc = "utf-8" -> Utf8Chars(b)
    [] enc = "latin-1" -> Latin1Chars(b)

Take(s, n) == SubSeq(s, 1, Min(n, Len(s)))

\* f.read(n) on a text stream over the bytes b: the stream decodes the
\* buffered chunk (here the whole file, shorter than one chunk) and hands
\* out at most n characters
ReadChars(enc, b, n) == Take(Decode(enc, b), n)

\* `with open(filepath, 'r', encoding=enc) as f: text = f.read(n)`
OpenRead(path, enc, n) ==
  IF ~Exists(path) THEN [exc |-> "FileNotFoundError", text |-> <<>>]
  ELSE IF enc \notin Codecs THEN [exc |-> "LookupError", text |-> <<>>]
  ELSE IF ~Decodes(enc, Files[path])
         THEN [exc |-> "UnicodeDecodeError", text |-> <<>>]
  ELSE [exc |-> "none", text |-> ReadChars(enc, Files[path], n)]

\* a cascade that goes through all three opens whatever the first two do
ReadCascadeAlwaysFallsThrough(path, enc, n) ==
  LET third == OpenRead(path, "latin-1", n)
  IN [exc |-> third.exc, text |-> third.text, tier |-> 3]

\* lines 283-299: the three opens, each tried when the one before raised
\* UnicodeDecodeError
ReadCascade(path, enc, n) ==
  LET first == OpenRead(path, enc, n)
      second == OpenRead(path, "utf-8", n)
      third == OpenRead(path, "latin-1", n)
  IN IF first.exc # "UnicodeDecodeError"
       THEN [exc |-> first.exc, text |-> first.text, tier |-> 1]
     ELSE IF second.exc # "UnicodeDecodeError"
       THEN [exc |-> second.exc, text |-> second.text, tier |-> 2]
     ELSE [exc |-> third.exc, text |-> third.text, tier |-> 3]

\* the encoding of the open that tier made
TierEncoding(enc, tier) ==
  CASE tier = 1 -> enc
    [] tier = 2 -> "utf-8"
    [] tier = 3 -> "latin-1"

\* the opens that got as far as reading, in order
TierReads(enc, n, r) ==
  IF r.exc \in {"FileNotFoundError", "LookupError"} /\ r.tier = 1 THEN <<>>
  ELSE [i \in 1..r.tier |-> [mode |-> "r", size |-> n, encoding |-> TierEncoding(enc, i)]]

\* a message is printed to sys.stderr when its condition holds
Say(cond, msg, log) == IF cond THEN Append(log, msg) ELSE log

\* outcomes of lines 266-273: chardet missing, the open raising (when the
\* file cannot be opened), or a detection result
SniffOutcomes ==
  {[kind |-> k, encoding |-> "utf-8", confidence |-> 0] :
     k \in {"ImportError", "Exception", "detected"}}
  \cup {[kind |-> "detected", encoding |-> e, confidence |-> c] :
          e \in SniffEncodings, c \in SniffConfs}

---------------------------------------------------------------------------
(* process_file *)

\* the characters of the codes and names the results are made of
Spell(s) ==
  CASE s = "en" -> <<"e", "n">>
    [] s = "fr" -> <<"f", "r">>
    [] s = "es" -> <<"e", "s">>
    [] s = "xx" -> <<"x", "x">>
    [] s = "English" -> <<"E", "n", "g", "l", "i", "s", "h">>
    [] s = "French" -> <<"F", "r", "e", "n", "c", "h">>
    [] s = "Spanish" -> <<"S", "p", "a", "n", "i", "s", "h">>
    [] s = "Custom" -> <<"C", "u", "s", "t", "o", "m">>
    [] s = "unknown" -> <<"u", "n", "k", "n", "o", "w", "n">>
    [] s = "Unknown" -> <<"U", "n", "k", "n", "o", "w", "n">>
    [] s = "None" -> <<"N", "o", "n", "e">>

\* what `print(format_output(filepath, code, name, confidence, fmt))` writes;
\* print writes the word None for the value None
PrintedLine(filepath, result, fmt) ==
  LET out == FormatOutput(filepath, Spell(result[1]), Spell(result[2]), result[3], fmt)
  IN IF out = None THEN Spell("None") ELSE out

\* the messages detect_language wrote, as they appear on sys.stderr
DetectMessages == [i \in 1..Len(stderr) |-> <<"detect", stderr[i]>>]

\* the frame of detect_language is gone after its return
DetectLocalsDropped ==
  /\ pc' = "idle"
  /\ text' = None
  /\ lang_set' = NoLangSet
  /\ fallback_code' = "unknown"
  /\ fallback_name' = "Unknown"
  /\ results' = <<>>
  /\ classify_calls' = 0
  /\ classify_arg' = None
  /\ classify_outcome' = ""
  /\ lookup_outcome' = ""
  /\ lang_code' = ""
  /\ confidence' = 0
  /\ ret' = NoResult
  /\ ret_line' = 0
  /\ escaped' = "none"
  /\ stderr' = <<>>

\* a call that starts from the encoding the call before ended with
ProcessFileKeepsEncoding(filepath, sample_size, ls, fb, fmt, verbose) ==
  /\ pc = "idle"
  /\ ppc' = "sniff"
  /\ pf' = [filepath |-> filepath,
            requested |-> sample_size,
            sample_size |-> Clamp(sample_size),
            lang_set |-> ls,
            fallback_code |-> fb[1],
            fallback_name |-> fb[2],
            output_format |-> fmt,
            verbose |-> verbose,
            detect_result |-> [kind |-> "none", encoding |-> "", confidence |-> 0],
            encoding |-> IF ppc = "done" THEN pf.encoding ELSE "utf-8",
            tier |-> 0,
            text |-> <<>>,
            actual_bytes |-> 0]
  /\ diag' = Say(verbose /\ PRINT_WARNINGS,
                 <<"processing", filepath, Clamp(sample_size)>>, diag)
  /\ UNCHANGED <<detectVars, fmtVars, module_name, JSON_AVAILABLE, seed, reads,
                 stdout, history>>

\* lines 218-262: the call, the clamp and the first trace
process_file(filepath, sample_size, ls, fb, fmt, verbose) ==
  /\ pc = "idle"
  /\ ppc' = "sniff"
  /\ pf' = [filepath |-> filepath,
            requested |-> sample_size,
            sample_size |-> Clamp(sample_size),
            lang_set |-> ls,
            fallback_code |-> fb[1],
            fallback_name |-> fb[2],
            output_format |-> fmt,
            verbose |-> verbose,
            detect_result |-> [kind |-> "none", encoding |-> "", confidence |-> 0],
            encoding |-> "utf-8",
            tier |-> 0,
            text |-> <<>>,
            actual_bytes |-> 0]
  /\ diag' = Say(verbose /\ PRINT_WARNINGS,
                 <<"processing", filepath, Clamp(sample_size)>>, diag)
  /\ UNCHANGED <<detectVars, fmtVars, module_name, JSON_AVAILABLE, seed, reads,
                 stdout, history>>

\* a sniffing that trusts a confidence of exactly 0.7
SniffEndsTrustsAtThreshold(o) ==
  LET loud == pf.verbose /\ PRINT_WARNINGS
      opened == o.kind # "ImportError" /\ Exists(pf.filepath)
      trusted == o.kind = "detected" /\ o.confidence >= SNIFF_THRESHOLD
  IN /\ (o.kind = "Exception") = ~Exists(pf.filepath) \/ o.kind = "ImportError"
     /\ reads' = IF opened
                   THEN Append(reads, [mode |-> "rb",
                                       size |-> Min(SNIFF_SIZE, pf.sample_size),
                                       encoding |-> "bytes"])
                   ELSE reads
     /\ pf' = [pf EXCEPT !.detect_result = o,
                         !.encoding = IF trusted THEN o.encoding ELSE "utf-8"]
     /\ diag' = CASE o.kind = "ImportError" -> Say(loud, <<"chardet_missing">>, diag)
                  [] o.kind = "Exception" -> Say(loud, <<"sniff_failed">>, diag)
                  [] OTHER ->
                       Say(loud /\ trusted,
                           <<"detected_encoding", o.encoding, o.confidence>>, diag)

\* lines 264-281 when the sniffing ends in outcome o; detect_result stands
\* for how the try statement ended as well as for what chardet returned
SniffEnds(o) ==
  LET loud == pf.verbose /\ PRINT_WARNINGS
      opened == o.kind # "ImportError" /\ Exists(pf.filepath)
      trusted == o.kind = "detected" /\ o.confidence > SNIFF_THRESHOLD
  IN /\ (o.kind = "Exception") = ~Exists(pf.filepath) \/ o.kind = "ImportError"
     /\ reads' = IF opened
                   THEN Append(reads, [mode |-> "rb",
                                       size |-> Min(SNIFF_SIZE, pf.sample_size),
                                       encoding |-> "bytes"])
                   ELSE reads
     /\ pf' = [pf EXCEPT !.detect_result = o,
                         !.encoding = IF trusted THEN o.encoding ELSE "utf-8"]
     /\ diag' = CASE o.kind = "ImportError" -> Say(loud, <<"chardet_missing">>, diag)
                  [] o.kind = "Exception" -> Say(loud, <<"sniff_failed">>, diag)
                  [] OTHER ->
                       Say(loud /\ trusted,
                           <<"detected_encoding", o.encoding, o.confidence>>, diag)

DetectEncoding ==
  /\ ppc = "sniff"
  /\ \E o \in SniffOutcomes : SniffEnds(o)
  /\ ppc' = "open"
  /\ UNCHANGED <<detectVars, fmtVars, module_name, JSON_AVAILABLE, seed, mpc, args,
                 stdin, file_idx, exit_status, uncaught, stdout, history>>

\* lines 287-299: the warnings of a cascade that went to `tier`
CascadeWarnings(enc, tier, loud, log) ==
  LET afterFirst == Say(tier >= 2 /\ enc # "utf-8" /\ loud,
                        <<"fallback_utf8", enc>>, log)
  IN Say(tier >= 3 /\ loud, <<"fallback_latin1">>, afterFirst)

\* a handler that reports whatever the flag says
ReportErrorAlways(filepath, exc, log) == Append(log, <<"error", filepath, exc>>)

\* lines 317-319
ReportError(filepath, exc, log) ==
  Say(PRINT_WARNINGS, <<"error", filepath, exc>>, log)

\* lines 283-307: the cascade, the count and the traces; an exception other
\* than UnicodeDecodeError goes to the handler of line 317
ReadSample ==
  /\ ppc = "open"
  /\ LET loud == pf.verbose /\ PRINT_WARNINGS
         r == ReadCascade(pf.filepath, pf.encoding, pf.sample_size)
         actual_bytes == Len(r.text)
         warned == CascadeWarnings(pf.encoding, r.tier, loud, diag)
     IN /\ reads' = reads \o TierReads(pf.encoding, pf.sample_size, r)
        /\ IF r.exc = "none"
             THEN /\ ppc' = "detect"
                  /\ pf' = [pf EXCEPT !.text = r.text,
                                      !.tier = r.tier,
                                      !.actual_bytes = actual_bytes]
                  /\ diag' =
                       Say(actual_bytes < MIN_SAMPLE_SIZE /\ PRINT_WARNINGS,
                           <<"small_file", pf.filepath, actual_bytes>>,
                           Say(loud,
                               <<"read", actual_bytes, pf.filepath, pf.encoding>>,
                               warned))
                  /\ UNCHANGED history
             ELSE /\ ppc' = "done"
                  /\ pf' = [pf EXCEPT !.tier = r.tier]
                  /\ diag' = ReportError(pf.filepath, r.exc, warned)
                  /\ history' = Append(history, [filepath |-> pf.filepath,
                                                 failure |-> r.exc,
                                                 result |-> NoResult])
  /\ UNCHANGED <<detectVars, fmtVars, module_name, JSON_AVAILABLE, seed, mpc, args,
                 stdin, file_idx, exit_status, uncaught, stdout>>

\* lines 309-311: the call of detect_language
DetectSample ==
  /\ ppc = "detect"
  /\ pc = "idle"
  /\ Call(pf.text, pf.lang_set, <<pf.fallback_code, pf.fallback_name>>)

\* a print that sends the trace written just before it to sys.stdout
WriteOutWithTrace(line, log) ==
  /\ stdout' = (IF log # diag THEN Append(stdout, <<"t", "r", "a", "c", "e">>)
                              ELSE stdout) \o <<line>>
  /\ diag' = diag

\* a print that is skipped while the warning flag is off
WriteOutUnlessQuiet(line, log) ==
  /\ stdout' = IF PRINT_WARNINGS THEN Append(stdout, line) ELSE stdout
  /\ diag' = log

\* `print(...)` with no file argument; diagnostics so far are on sys.stderr
WriteOut(line, log) ==
  /\ stdout' = Append(stdout, line)
  /\ diag' = log

\* lines 309-316 once detect_language has returned: the trace and the print;
\* json.dumps raises NameError when the json import failed
PrintResult ==
  /\ ppc = "detect"
  /\ pc = "done"
  /\ ppc' = "done"
  /\ LET loud == pf.verbose /\ PRINT_WARNINGS
         heard == diag \o DetectMessages
         traced == Say(loud, <<"result", ret[1], ret[2], ret[3]>>, heard)
         line == PrintedLine(pf.filepath, ret, pf.output_format)
     IN IF escaped # "none"
          THEN /\ diag' = ReportError(pf.filepath, escaped, heard)
               /\ history' = Append(history, [filepath |-> pf.filepath,
                                              failure |-> escaped,
                                              result |-> NoResult])
               /\ UNCHANGED stdout
        ELSE IF pf.output_format = "json" /\ ~JSON_AVAILABLE
          THEN /\ diag' = ReportError(pf.filepath, "NameError", traced)
               /\ history' = Append(history, [filepath |-> pf.filepath,
                                              failure |-> "NameError",
                                              result |-> NoResult])
               /\ UNCHANGED stdout
        ELSE /\ WriteOut(line, traced)
             /\ history' = Append(history, [filepath |-> pf.filepath,
                                            failure |-> "none",
                                            result |-> ret])
  /\ DetectLocalsDropped
  /\ UNCHANGED <<PRINT_WARNINGS, fmtVars, module_name, JSON_AVAILABLE, seed, mpc,
                 args, stdin, file_idx, exit_status, uncaught, pf, reads>>

\* the caller of process_file has seen what the call wrote
ProcessFileReturned ==
  /\ mpc = "idle"
  /\ ppc = "done"
  /\ ppc' = "idle"
  /\ pf' = NoCall
  /\ reads' = <<>>
  /\ stdout' = <<>>
  /\ diag' = <<>>
  /\ history' = <<>>
  /\ UNCHANGED <<detectVars, fmtVars, module_name, JSON_AVAILABLE, seed, mpc, args,
                 stdin, file_idx, exit_status, uncaught>>

---------------------------------------------------------------------------
(* main *)

\* what parser.print_help() writes to sys.stdout
Usage == <<"u", "s", "a", "g", "e", ":">>

\* the process ends with `status`
Exit(status) ==
  /\ mpc' = "exited"
  /\ exit_status' = status

\* sys.stdin decodes UTF-8; under the error handler surrogateescape a byte
\* that is part of no sequence becomes a lone surrogate
StdinChars(b) ==
  LET m == [i \in 1..Len(b) |->
              IF b[i] \in AsciiBytes THEN b[i]
              ELSE IF b[i] = "L" /\ i < Len(b) /\ b[i + 1] = "C" THEN "U+E9"
              ELSE IF b[i] = "C" /\ i > 1 /\ b[i - 1] = "L" THEN ""
              ELSE IF b[i] = "L" THEN "U+DCC3"
              ELSE IF b[i] = "C" THEN "U+DCA9"
              ELSE "U+DCFF"]
  IN SelectSeq(m, LAMBDA c : c # "")

\* lines 390-440 and the branch taken at lines 441, 453 and 478; argv is the
\* parsed command line, in the input channel the process was started with,
\* which main looks at only when no file is given
main(argv, in) ==
  /\ mpc = "idle"
  /\ ppc = "idle"
  /\ pc = "idle"
  /\ LET loud == argv.verbose /\ PRINT_WARNINGS
         original_size == argv.sample_size
         adjusted ==
           IF original_size < MIN_SAMPLE_SIZE
             THEN Say(loud, <<"adjusted_to_minimum", MIN_SAMPLE_SIZE>>, <<>>)
             ELSE Say(loud /\ original_size > MAX_SAMPLE_SIZE,
                      <<"adjusted_to_maximum", MAX_SAMPLE_SIZE>>, <<>>)
         announced ==
           Say(Restricted(argv.lang_set) /\ loud,
               <<"restricting", argv.lang_set>>, adjusted)
     IN /\ args' = [files |-> argv.files,
                     original_size |-> original_size,
                     sample_size |-> Clamp(original_size),
                     format |-> argv.format,
                     lang_set |-> argv.lang_set,
                     fallback_langcode |-> argv.fallback_langcode,
                     fallback_langname |-> argv.fallback_langname,
                     verbose |-> argv.verbose]
        /\ IF argv.format = "json" /\ ~JSON_AVAILABLE
             THEN /\ diag' = Say(PRINT_WARNINGS, <<"json_unavailable">>, announced)
                  /\ Exit(1)
                  /\ UNCHANGED <<stdin, file_idx, stdout>>
           ELSE IF argv.files # <<>>
             THEN /\ diag' = announced
                  /\ mpc' = "files"
                  /\ file_idx' = 1
                  /\ UNCHANGED <<stdin, exit_status, stdout>>
           ELSE IF ~in.isatty
             THEN /\ diag' = announced
                  /\ stdin' = in
                  /\ mpc' = "stdin"
                  /\ UNCHANGED <<exit_status, file_idx, stdout>>
           ELSE /\ diag' = announced
                /\ stdin' = in
                /\ stdout' = Append(stdout, Usage)
                /\ Exit(1)
                /\ UNCHANGED file_idx
  /\ UNCHANGED <<detectVars, fmtVars, module_name, JSON_AVAILABLE, seed, uncaught,
                 ppc, pf, reads, history>>

\* a loop that starts the next file while the one before is being detected
ProcessNextFileEarly ==
  /\ mpc = "files"
  /\ ppc \in {"idle", "done", "detect"}
  /\ file_idx <= Len(args.files)
  /\ process_file(args.files[file_idx], args.sample_size, args.lang_set,
                  <<args.fallback_langcode, args.fallback_langname>>,
                  args.format, args.verbose)
  /\ file_idx' = file_idx + 1
  /\ UNCHANGED <<mpc, args, stdin, exit_status, uncaught>>

\* lines 443-452: the next file argument
ProcessNextFile ==
  /\ mpc = "files"
  /\ ppc \in {"idle", "done"}
  /\ file_idx <= Len(args.files)
  /\ process_file(args.files[file_idx], args.sample_size, args.lang_set,
                  <<args.fallback_langcode, args.fallback_langname>>,
                  args.format, args.verbose)
  /\ file_idx' = file_idx + 1
  /\ UNCHANGED <<mpc, args, stdin, exit_status, uncaught>>

\* a loop that a failed file ends
MainStopsAtFirstFailure ==
  /\ mpc = "files"
  /\ ppc \in {"idle", "done"}
  /\ \/ file_idx > Len(args.files)
     \/ history # <<>> /\ history[Len(history)].failure # "none"
  /\ Exit(0)
  /\ UNCHANGED <<detectVars, fmtVars, module_name, JSON_AVAILABLE, seed, args,
                 stdin, file_idx, uncaught, ppc, pf, reads, stdout, diag,
                 history>>

\* the loop is over and main returns; the interpreter ends with status 0
MainReturns ==
  /\ mpc = "files"
  /\ ppc \in {"idle", "done"}
  /\ file_idx > Len(args.files)
  /\ Exit(0)
  /\ UNCHANGED <<detectVars, fmtVars, module_name, JSON_AVAILABLE, seed, args,
                 stdin, file_idx, uncaught, ppc, pf, reads, stdout, diag,
                 history>>

\* lines 454-465: the read of sys.stdin, the count and the traces; an
\* exception of the read leaves main and the interpreter ends with status 1
ReadStdin ==
  /\ mpc = "stdin"
  /\ reads' = Append(reads, [mode |-> "stdin", size |-> args.sample_size,
                             encoding |-> "utf-8"])
  /\ LET loud == args.verbose /\ PRINT_WARNINGS
         began == Say(loud, <<"reading_stdin", args.sample_size>>, diag)
         sample == Take(StdinChars(stdin.content), args.sample_size)
         actual_bytes == Len(sample)
     IN IF stdin.errors = "strict" /\ ~Decodes("utf-8", stdin.content)
          THEN /\ uncaught' = "UnicodeDecodeError"
               /\ Exit(1)
               /\ diag' = began
               /\ UNCHANGED stdin
          ELSE /\ stdin' = [stdin EXCEPT !.text = sample]
               /\ mpc' = "stdin_detect"
               /\ diag' =
                    Say(actual_bytes < MIN_SAMPLE_SIZE /\ PRINT_WARNINGS,
                        <<"small_stdin", actual_bytes>>,
                        Say(loud, <<"read_stdin", actual_bytes>>, began))
               /\ UNCHANGED <<uncaught, exit_status>>
  /\ UNCHANGED <<detectVars, fmtVars, module_name, JSON_AVAILABLE, seed, args,
                 file_idx, ppc, pf, stdout, history>>

\* lines 467-472: the call of detect_language
DetectStdin ==
  /\ mpc = "stdin_detect"
  /\ pc = "idle"
  /\ Call(stdin.text, args.lang_set,
          <<args.fallback_langcode, args.fallback_langname>>)

\* lines 467-477 once detect_language has returned; main returns
PrintStdinResult ==
  /\ mpc = "stdin_detect"
  /\ pc = "done"
  /\ LET loud == args.verbose /\ PRINT_WARNINGS
         heard == diag \o DetectMessages
         traced == Say(loud, <<"result", ret[1], ret[2], ret[3]>>, heard)
     IN IF escaped # "none"
          THEN /\ uncaught' = escaped
               /\ Exit(1)
               /\ diag' = heard
               /\ UNCHANGED stdout
          ELSE /\ WriteOut(PrintedLine(None, ret, args.format), traced)
               /\ Exit(0)
               /\ UNCHANGED uncaught
  /\ history' = Append(history, [filepath |-> None, failure |-> escaped,
                                 result |-> ret])
  /\ DetectLocalsDropped
  /\ UNCHANGED <<PRINT_WARNINGS, fmtVars, module_name, JSON_AVAILABLE, seed, args,
                 stdin, file_idx, ppc, pf, reads>>

---------------------------------------------------------------------------
(* The program: the module run as a script, or imported and called *)

Paths == DOMAIN Files \cup {<<"m">>}

\* the options of a command line: -n below the minimum or above the
\* maximum, --format among argparse's choices, -L absent or a non-empty
\* list, -v or not; every pair of option values occurs
Option(n, fmt, ls, v) ==
  [sample_size |-> n, format |-> fmt, lang_set |-> ls, verbose |-> v]

CliOptions ==
  {Option(10, "text", NoLangSet, FALSE),
   Option(10, "json", {"fr"}, TRUE),
   Option(10000, "text", {"fr"}, TRUE),
   Option(10000, "json", NoLangSet, TRUE),
   Option(10000, "json", {"fr"}, FALSE)}

\* the file arguments of a command line
FileLists ==
  {<<>>, <<<<"m">>>>, <<<<"t">>>>, <<<<"m">>, <<"d", "/", "h">>>>,
   <<<<"d", "/", "h">>, <<"m">>, <<"e">>>>, <<<<"u">>, <<"b">>>>,
   <<<<"l">>, <<"m">>>>}

CommandLines ==
  {[files |-> fl, sample_size |-> o.sample_size, format |-> o.format,
    lang_set |-> o.lang_set, fallback_langcode |-> "xx",
    fallback_langname |-> "Custom", verbose |-> o.verbose] :
     fl \in FileLists, o \in CliOptions}

\* what the input channel holds when it is not a terminal
StdinContents == {<<>>, Xs(2), Gap(MaxWord), Xs(2) \o <<"F">>}

\* a terminal, or a pipe; the error handler of sys.stdin is strict, or
\* surrogateescape under the C locale, and shows on undecodable bytes only
InputChannels ==
  {[isatty |-> TRUE, errors |-> "strict", content |-> <<>>, text |-> <<>>]}
  \cup [isatty : {FALSE}, errors : {"strict"}, content : StdinContents,
        text : {<<>>}]
  \cup {[isatty |-> FALSE, errors |-> "surrogateescape", content |-> c,
         text |-> <<>>] : c \in {b \in StdinContents : ~Decodes("utf-8", b)}}

\* texts a program hands to detect_language itself
LibraryTexts == {None, Xs(2), Gap(MaxWord)}

\* formats a program hands to process_file
LibraryFormats == {"json", "xml"}

mainVars == <<mpc, args, stdin, file_idx, exit_status, uncaught>>

\* the calls a program that imported the module makes
LibraryCall ==
  /\ module_name # "__main__"
  /\ mpc = "idle"
  /\ ppc = "idle"
  /\ pc = "idle"
  /\ \/ \E b \in BOOLEAN : set_warning_output(b)
     \/ \E t \in LibraryTexts, ls \in {NoLangSet, {"fr"}} :
          Call(t, ls, <<"unknown", "Unknown">>)
     \/ /\ \E p \in Paths, fmt \in LibraryFormats, v \in BOOLEAN :
             process_file(p, DEFAULT_SAMPLE_SIZE, NoLangSet,
                          <<"unknown", "Unknown">>, fmt, v)
        /\ UNCHANGED mainVars

\* main() is called once: by the last line of the script, or by the
\* console script that imported the module
MainCall ==
  \E argv \in CommandLines, in \in InputChannels : main(argv, in)

NextDriver ==
  \/ LibraryCall
  \/ mpc = "idle" /\ ppc = "idle" /\ Returned
  \/ ProcessFileReturned
  \/ MainCall
  \/ ProcessNextFile
  \/ MainReturns
  \/ ReadStdin
  \/ DetectStdin
  \/ PrintStdinResult
  \/ DetectEncoding
  \/ ReadSample
  \/ DetectSample
  \/ PrintResult
  \/ EmptinessCheck
  \/ LengthCheck
  \/ Classify
  \/ NameLookup

InitDriver ==
  /\ \E name \in {"__main__", "whatlang"}, has_json \in BOOLEAN :
       Loaded(name, has_json)
  /\ NothingCalled

SpecDriver == InitDriver /\ [][NextDriver]_vars

---------------------------------------------------------------------------
(* tests/mock_whatlang.py, the module the test suite runs against *)

\* mock line 33: `len(text.strip()) < 10`
MockIsTooShort(t) == Len(Strip(t)) < 10

\* mock lines 27-75: detect_language of the test double, for the text t, the
\* allow-set ls, the fallback pair fb, the classifier ending in `outcome`
\* with the candidates rs, and the name lookup ending in `lookup`
mock_detect_language(t, ls, fb, outcome, rs, lookup) ==
  LET cands == IF Restricted(ls) THEN FilterAllowed(rs, ls) ELSE rs
  IN IF IsEmptyText(t) THEN Fallback(fb[1], fb[2])
     ELSE IF MockIsTooShort(t) THEN Fallback(fb[1], fb[2])
     ELSE IF outcome = "raised" THEN Fallback(fb[1], fb[2])
     ELSE IF cands = <<>> THEN Fallback(fb[1], fb[2])
     ELSE CASE lookup = "entry" ->
                 <<cands[1].lang, LanguageName(cands[1].lang), cands[1].prob>>
            [] lookup = "missing" ->
                 <<cands[1].lang, cands[1].lang, cands[1].prob>>
            [] lookup = "AttributeError" ->
                 <<cands[1].lang, cands[1].lang, cands[1].prob>>
            [] OTHER -> Fallback(fb[1], fb[2])

---------------------------------------------------------------------------
(* Vocabulary of the claims about detect_language, stated on the arguments *)
(* and the classifier's output, not on the helpers above                   *)

Done == pc = "done"

\* absent, empty, or whitespace only
IsBlank(t) == t = None \/ \A i \in 1..Len(t) : t[i] = " "

\* length of the text between its first and last non-whitespace character
TrimmedLen(t) ==
  LET ink == {i \in 1..Len(t) : t[i] # " "}
  IN IF ink = {} THEN 0
     ELSE (CHOOSE i \in ink : \A j \in ink : j <= i)
          - (CHOOSE i \in ink : \A j \in ink : i <= j) + 1

FallbackResult == <<fallback_code, fallback_name, 0>>

FallbackLines == {104, 110, 121, 129, 134, 153}

PopulatedLines == {144, 147}

HasAllowSet == lang_set # NoLangSet /\ lang_set # {}

\* positions of the candidates that may be selected
Eligible ==
  IF HasAllowSet
    THEN {i \in 1..Len(results) : results[i].lang \in lang_set}
    ELSE 1..Len(results)

FirstEligible == CHOOSE i \in Eligible : \A j \in Eligible : i <= j

---------------------------------------------------------------------------
\* C1: a text that is None, empty or whitespace only yields exactly
\* (fallback_code, fallback_name, 0.0), for every allow-set and fallback pair.
C1_BlankTextFallback ==
  (Done /\ IsBlank(text)) => (escaped = "none" /\ ret = FallbackResult)

C1_Witness ==
  /\ Done
  /\ text = <<" ", " ">>
  /\ lang_set = {"en", "es"}
  /\ fallback_code = "xx"
  /\ ret = <<"xx", "Custom", 0>>

\* C2: a text whose trimmed length is above 0 and below 5 yields the fallback
\* result, and the classifier is not invoked at any point of the call.
C2_ShortTextNoClassifier ==
  (pc # "idle" /\ ~IsBlank(text) /\ TrimmedLen(text) < 5) =>
     /\ classify_calls = 0
     /\ pc # "classify"
     /\ Done => (escaped = "none" /\ ret = FallbackResult)

C2_Witness ==
  /\ Done
  /\ text = <<" ", "x", "x", "x", "x", " ">>
  /\ HasAllowSet
  /\ classify_calls = 0
  /\ ret = FallbackResult

\* C3: no exception leaves detect_language; every call ends with a populated
\* result or the fallback result, whatever classifier and lookup do.
C3_NeverPropagates ==
  /\ escaped = "none"
  /\ Done =>
       \/ ret = FallbackResult
       \/ \E i \in 1..Len(results) :
            /\ ret[1] = results[i].lang
            /\ ret[2] \in {results[i].lang, LanguageName(results[i].lang)}
            /\ ret[3] = results[i].prob

C3_Witness ==
  /\ Done
  /\ ~HasAllowSet
  /\ classify_outcome = "raised"
  /\ escaped = "none"
  /\ ret = FallbackResult

\* C4: the candidate selected is the first of the classifier's sequence that
\* the allow-set admits (the first of all without an allow-set), and a
\* populated result carries its code and probability; no later candidate
\* wins, whatever its probability.
C4_FirstEligibleSelected ==
  /\ (lang_code # "" /\ (HasAllowSet \/ lang_set = NoLangSet)) =>
        /\ Eligible # {}
        /\ lang_code = results[FirstEligible].lang
        /\ confidence = results[FirstEligible].prob
  /\ (Done /\ ret_line \in PopulatedLines
           /\ (HasAllowSet \/ lang_set = NoLangSet)) =>
        /\ Eligible # {}
        /\ ret[1] = results[FirstEligible].lang
        /\ ret[3] = results[FirstEligible].prob

C4_Witness ==
  /\ Done
  /\ lang_set = {"en", "es"}
  /\ results = << [lang |-> "fr", prob |-> ConfDen],
                  [lang |-> "en", prob |-> ConfDen \div 2],
                  [lang |-> "es", prob |-> ConfDen] >>
  /\ ret = <<"en", "English", ConfDen \div 2>>

\* C5: past the emptiness and length checks, a classifier failure, an empty
\* candidate sequence, or no candidate in a non-empty allow-set yields the
\* fallback result.
C5_NoCandidateFallback ==
  (/\ Done
   /\ ~IsBlank(text)
   /\ TrimmedLen(text) >= 5
   /\ \/ classify_outcome = "raised"
      \/ classify_outcome = "returned" /\ results = <<>>
      \/ classify_outcome = "returned" /\ HasAllowSet /\ Eligible = {})
  => (escaped = "none" /\ ret = FallbackResult)

C5_Witness ==
  /\ Done
  /\ lang_set = {"fr"}
  /\ results = << [lang |-> "en", prob |-> ConfDen] >>
  /\ fallback_code = "xx"
  /\ ret = <<"xx", "Custom", 0>>

\* C6: once a code is selected, the returned code is that code and the
\* returned name is the looked-up name or the code, never the fallback,
\* whatever the outcome of the name lookup.
C6_SelectedNeverFallback ==
  (Done /\ lang_code # "") =>
     /\ ret_line \in PopulatedLines
     /\ ret[1] = lang_code
     /\ ret[2] = (IF lookup_outcome = "entry" THEN LanguageName(lang_code)
                                              ELSE lang_code)

---------------------------------------------------------------------------
(* json.loads, as the tests apply it to the json rendering *)

At(s, i) == IF i \in 1..Len(s) THEN s[i] ELSE ""

IsDigit(c) == \E d \in 1..10 : DigitChars[d] = c

DigitVal(c) == (CHOOSE d \in 1..10 : DigitChars[d] = c) - 1

RECURSIVE SkipWs(_, _)
SkipWs(s, i) == IF At(s, i) = " " THEN SkipWs(s, i + 1) ELSE i

ParseFail == [ok |-> FALSE, kind |-> "", str |-> <<>>, num |-> 0, next |-> 0]

\* the characters of a string literal, from just after its opening quote
RECURSIVE ScanString(_, _, _)
ScanString(s, i, acc) ==
  LET c == At(s, i)
      d == At(s, i + 1)
  IN IF c = "" THEN ParseFail
     ELSE IF c = QUOTE
       THEN [ok |-> TRUE, kind |-> "string", str |-> acc, num |-> 0, next |-> i + 1]
     ELSE IF c = BSLASH
       THEN IF d \in {QUOTE, BSLASH, "/"} THEN ScanString(s, i + 2, Append(acc, d))
            ELSE IF d = "t" THEN ScanString(s, i + 2, Append(acc, TAB))
            ELSE ParseFail
     ELSE ScanString(s, i + 1, Append(acc, c))

RECURSIVE ScanDigits(_, _, _)
ScanDigits(s, i, acc) ==
  IF IsDigit(At(s, i)) THEN ScanDigits(s, i + 1, Append(acc, DigitVal(At(s, i))))
                       ELSE [digits |-> acc, next |-> i]

RECURSIVE DigitsValue(_)
DigitsValue(ds) ==
  IF ds = <<>> THEN 0
  ELSE 10 * DigitsValue(SubSeq(ds, 1, Len(ds) - 1)) + ds[Len(ds)]

\* a number with at most two fraction digits, in hundredths
ScanNumber(s, i) ==
  LET int == ScanDigits(s, i, <<>>)
      frac == IF At(s, int.next) = "." THEN ScanDigits(s, int.next + 1, <<>>)
                                       ELSE [digits |-> <<>>, next |-> int.next]
  IN IF int.digits = <<>> \/ Len(frac.digits) > 2
          \/ (At(s, int.next) = "." /\ frac.digits = <<>>)
       THEN ParseFail
       ELSE [ok |-> TRUE, kind |-> "number", str |-> <<>>,
             num |-> 100 * DigitsValue(int.digits)
                     + (IF Len(frac.digits) = 1 THEN 10 * frac.digits[1]
                        ELSE DigitsValue(frac.digits)),
             next |-> frac.next]

ParseValue(s, i) ==
  IF At(s, i) = QUOTE THEN ScanString(s, i + 1, <<>>)
  ELSE IF IsDigit(At(s, i)) THEN ScanNumber(s, i)
  ELSE ParseFail

LoadsFail == [ok |-> FALSE, members |-> <<>>]

\* the members of an object, from the first character of a key
RECURSIVE ParseMembers(_, _, _)
ParseMembers(s, i, acc) ==
  IF At(s, i) # QUOTE THEN LoadsFail
  ELSE LET key == ScanString(s, i + 1, <<>>)
           colon == SkipWs(s, key.next)
           value == ParseValue(s, SkipWs(s, colon + 1))
           after == SkipWs(s, value.next)
           all == Append(acc, [key |-> key.str, kind |-> value.kind,
                               str |-> value.str, num |-> value.num])
       IN IF ~key.ok \/ At(s, colon) # ":" \/ ~value.ok THEN LoadsFail
          ELSE IF At(s, after) = "," THEN ParseMembers(s, SkipWs(s, after + 1), all)
          ELSE IF At(s, after) = "}" /\ SkipWs(s, after + 1) = Len(s) + 1
            THEN [ok |-> TRUE, members |-> all]
          ELSE LoadsFail

\* json.loads of an object of strings and numbers
JsonLoads(s) ==
  LET open == SkipWs(s, 1)
      first == SkipWs(s, open + 1)
  IN IF At(s, open) # "{" THEN LoadsFail
     ELSE IF At(s, first) = "}" /\ SkipWs(s, first + 1) = Len(s) + 1
       THEN [ok |-> TRUE, members |-> <<>>]
     ELSE ParseMembers(s, first, <<>>)

---------------------------------------------------------------------------
(* Vocabulary of the claims about format_output *)

Formatted == fpc = "done"

FourFormats == {"text", "json", "csv", "bash"}

\* a label is given: a path of at least one character
LabelGiven == fmt_filepath # None /\ fmt_filepath # <<>>

\* b is what follows the last "/" of p (all of p when it has none)
IsFinalSegment(b, p) ==
  \E j \in 0..Len(p) :
    /\ b = SubSeq(p, j + 1, Len(p))
    /\ \A i \in 1..Len(b) : b[i] # "/"
    /\ j = 0 \/ p[j] = "/"

FinalSegment(p) == CHOOSE b \in {SubSeq(p, j + 1, Len(p)) : j \in 0..Len(p)} :
                     IsFinalSegment(b, p)

\* k hundredths is a nearest two-decimal value of n / ConfDen
IsNearestHundredth(k, n) ==
  /\ 2 * (100 * n - k * ConfDen) <= ConfDen
  /\ 2 * (k * ConfDen - 100 * n) <= ConfDen

IsTie(n) == (200 * n) % ConfDen = 0 /\ (100 * n) % ConfDen # 0

\* the nearest hundredth, the even one of the two at a tie
NearestEven(n) ==
  CHOOSE k \in 0..100 : IsNearestHundredth(k, n) /\ (IsTie(n) => k % 2 = 0)

\* the nearest hundredth, the upper one of the two at a tie
NearestUp(n) ==
  CHOOSE k \in 0..100 :
    IsNearestHundredth(k, n) /\ (IsTie(n) => k * ConfDen > 100 * n)

TwoDecimals(k) == <<Digit(k \div 100), ".", Digit((k \div 10) % 10), Digit(k % 10)>>

\* the shortest decimal with at least one fraction digit
ShortestDecimal(k) ==
  IF k % 10 = 0 THEN SubSeq(TwoDecimals(k), 1, 3) ELSE TwoDecimals(k)

\* one row of the format table: base is the label field (left out without a
\* label), conf the rendering of the confidence, sp the whitespace after the
\* ':' and ',' of json, which json does not count
TableRow(fmt, withFile, base, c, n, conf, sp) ==
  CASE fmt = "text" ->
         (IF withFile THEN base \o <<":", " ">> ELSE <<>>)
           \o c \o <<TAB>> \o n \o <<TAB>> \o conf
    [] fmt = "csv" ->
         (IF withFile THEN base \o <<",">> ELSE <<>>)
           \o c \o <<",">> \o n \o <<",">> \o conf
    [] fmt = "bash" ->
         B_open
           \o (IF withFile THEN B_file \o base \o <<QUOTE, " ">> ELSE <<>>)
           \o B_code_first \o c \o B_name \o n \o B_confidence \o conf \o B_close
    [] fmt = "json" ->
         <<"{">>
           \o (IF withFile
                 THEN JsonString(K_file) \o <<":">> \o sp \o JsonString(base)
                        \o <<",">> \o sp
                 ELSE <<>>)
           \o JsonString(K_language_code) \o <<":">> \o sp \o JsonString(c)
           \o <<",">> \o sp
           \o JsonString(K_language_name) \o <<":">> \o sp \o JsonString(n)
           \o <<",">> \o sp
           \o JsonString(K_confidence) \o <<":">> \o sp \o conf
           \o <<"}">>

JsonSpacing == {<<>>, <<" ">>}

\* the confidence as it stands in the output: what follows the last tab,
\* comma, space or quote before the closing characters of the format
ConfidenceShown ==
  LET skip == CASE output_format = "bash" -> 2
                [] output_format = "json" -> 1
                [] OTHER -> 0
      body == SubSeq(output, 1, Len(output) - skip)
      seps == {i \in 1..Len(body) : body[i] \in {TAB, ",", " ", QUOTE}}
      last == IF seps = {} THEN 0 ELSE CHOOSE i \in seps : \A j \in seps : j <= i
  IN SubSeq(body, last + 1, Len(body))

Keys(obj) == {obj.members[i].key : i \in 1..Len(obj.members)}

Field(obj, key) ==
  obj.members[CHOOSE i \in 1..Len(obj.members) : obj.members[i].key = key]

---------------------------------------------------------------------------
C9_TwoDigitsHalfUp ==
  (Formatted /\ output_format \in FourFormats) =>
     ConfidenceShown = TwoDecimals(NearestUp(fmt_confidence))

\* C9 amended: in text, csv and bash the confidence stands with exactly two
\* digits after the point, rounded to the nearest hundredth, ties to the even
\* one; in json it is that value in its shortest decimal form.
C9_NearestEvenDigits ==
  (Formatted /\ output_format \in FourFormats) =>
     ConfidenceShown =
       (IF output_format = "json"
          THEN ShortestDecimal(NearestEven(fmt_confidence))
          ELSE TwoDecimals(NearestEven(fmt_confidence)))

C9_Witness ==
  /\ Formatted
  /\ output_format = "text"
  /\ 8 * fmt_confidence = ConfDen
  /\ ConfidenceShown = <<"0", ".", "1", "2">>

\* C10: the json rendering parses to an object with language_code and
\* language_name equal to the inputs, confidence the input rounded to two
\* decimals, file the final path segment of the label when one is given and
\* no file field otherwise.
C10_JsonRoundTrip ==
  (Formatted /\ output_format = "json") =>
     LET obj == JsonLoads(output)
     IN /\ obj.ok
        /\ Keys(obj) = {K_language_code, K_language_name, K_confidence}
                         \cup (IF LabelGiven THEN {K_file} ELSE {})
        /\ Len(obj.members) = Cardinality(Keys(obj))
        /\ Field(obj, K_language_code).kind = "string"
        /\ Field(obj, K_language_code).str = fmt_code
        /\ Field(obj, K_language_name).kind = "string"
        /\ Field(obj, K_language_name).str = fmt_name
        /\ Field(obj, K_confidence).kind = "number"
        /\ IsNearestHundredth(Field(obj, K_confidence).num, fmt_confidence)
        /\ LabelGiven =>
             /\ Field(obj, K_file).kind = "string"
             /\ IsFinalSegment(Field(obj, K_file).str, fmt_filepath)

C10_Witness ==
  /\ Formatted
  /\ output_format = "json"
  /\ fmt_filepath = <<"a", "/", "a">>
  /\ fmt_code = <<QUOTE>>
  /\ fmt_name = <<BSLASH, "n">>
  /\ LET obj == JsonLoads(output)
     IN /\ obj.ok
        /\ Field(obj, K_file).str = <<"a">>
        /\ Field(obj, K_language_code).str = <<QUOTE>>
        /\ Field(obj, K_language_name).str = <<BSLASH, "n">>

---------------------------------------------------------------------------
(* Vocabulary of the claims about process_file and main *)

\* the sample size the caller asked for: on the command line, or as the
\* argument of a process_file call made by a program
RequestedSize == IF mpc # "idle" THEN args.original_size ELSE pf.requested

\* the clamp as the claim states it
ClampedTo(n) == IF n < 50 THEN 50 ELSE IF n > 4096 THEN 4096 ELSE n

\* sizes around both ends of the range
ProbeSizes == {-1, 0, 10, 49, 50, 51, 512, 4095, 4096, 4097, 10000}

\* a call of process_file or main is under way or has just ended
CallUnderWay == mpc # "idle" \/ ppc # "idle"

ReaderFailures == {"FileNotFoundError", "LookupError", "UnicodeDecodeError"}

\* the calls of process_file that are over, and how each ended
FileCalls == {i \in 1..Len(history) : history[i].filepath # None}

\* C12 (as stated): every file that can be opened gets a decoded text, whatever
\* its bytes and whatever encoding was sniffed: no call of process_file on an
\* existing file ends in a failure of the reader, and a reader past the
\* cascade holds a text decoded by one of the three tiers.
C12_OpenableFileAlwaysDecoded ==
  /\ \A i \in FileCalls :
       Exists(history[i].filepath) => history[i].failure \notin ReaderFailures
  /\ ppc = "detect" => pf.tier \in 1..3

\* main is in, or has left, the loop over the file arguments
InFilesLoop == args.files # <<>> /\ (mpc = "files" \/ (mpc = "exited" /\ exit_status = 0))

\* the lines of the calls that ended well, in the order of the calls
RECURSIVE LinesOf(_, _)
LinesOf(h, fmt) ==
  IF h = <<>> THEN <<>>
  ELSE LET rest == LinesOf(SubSeq(h, 1, Len(h) - 1), fmt)
           last == h[Len(h)]
       IN IF last.failure = "none"
            THEN Append(rest, PrintedLine(last.filepath, last.result, fmt))
            ELSE rest

\* C13: the files are processed in the order given; the primary output holds
\* one formatted line per file whose read and processing succeeded (fallback
\* results included), in argument order; a failed file adds no line and the
\* files after it are still processed, so main ends having processed them all.
C13_OneLinePerReadableFileInOrder ==
  InFilesLoop =>
    /\ Len(history) <= Len(args.files)
    /\ \A i \in 1..Len(history) : history[i].filepath = args.files[i]
    /\ stdout = LinesOf(history, args.format)
    /\ \A i \in 1..Len(history) :
         ~Exists(history[i].filepath) => history[i].failure # "none"
    /\ Len(history) = (IF ppc \in {"idle", "done"} THEN file_idx - 1 ELSE file_idx - 2)
    /\ mpc = "exited" => Len(history) = Len(args.files)

C13_Witness ==
  /\ mpc = "exited"
  /\ exit_status = 0
  /\ args.files = <<<<"d", "/", "h">>, <<"m">>, <<"e">>>>
  /\ args.format = "text"
  /\ Len(history) = 3
  /\ history[1].failure = "none"
  /\ history[1].result = <<"xx", "Custom", 0>>
  /\ history[2].failure = "FileNotFoundError"
  /\ history[3].failure = "none"
  /\ Len(stdout) = 2
  /\ SubSeq(stdout[1], 1, 5) = <<"h", ":", " ", "x", "x">>
  /\ SubSeq(stdout[2], 1, 5) = <<"e", ":", " ", "x", "x">>

\* what has been written to the diagnostic channel
Diagnostics == {diag[i] : i \in 1..Len(diag)}

\* C14 (as stated): every path that cannot be opened and is processed by
\* process_file, from a program or from the command driver, leaves a
\* diagnostic that names the file and carries the I/O cause, and no line on
\* the primary output.
C14_UnopenablePathReported ==
  \A i \in FileCalls :
     ~Exists(history[i].filepath) =>
        /\ history[i].failure = "FileNotFoundError"
        /\ stdout = LinesOf(history, IF mpc = "idle" THEN pf.output_format ELSE args.format)
        /\ <<"error", history[i].filepath, "FileNotFoundError">> \in Diagnostics

\* the two cases in which main ends the process with status 1 by itself
JsonUnavailableExit == args.format = "json" /\ ~JSON_AVAILABLE

NothingToProcess == args.files = <<>> /\ stdin.isatty

\* C15 (as stated): main ends with status 1 exactly when json is selected
\* without the json capability, or when no file is given and the input is
\* interactive, where it prints the usage text and neither reads nor detects;
\* in every other case, also when every file failed, the status is 0.
C15_ExitStatusOneExactlyInTwoCases ==
  mpc = "exited" =>
    /\ exit_status \in {0, 1}
    /\ exit_status = 1 <=> JsonUnavailableExit \/ NothingToProcess
    /\ NothingToProcess /\ ~JsonUnavailableExit =>
         /\ stdout = <<Usage>>
         /\ reads = <<>>
         /\ history = <<>>

\* the renderings of the results of the sources processed so far, in order
ResultLines == LinesOf(history, args.format)

WritesDiagnostic == Len(diag') > Len(diag) \/ Len(stderr') > Len(stderr)

StdinRunOver == mpc = "exited" /\ args.files = <<>> /\ ~stdin.isatty

\* C18 (as stated): with no file arguments and a non-interactive input, the
\* driver reads one sample of at most the clamped budget and treats it as a
\* file sample, decode cascade included: whatever the input holds, exactly
\* one result line without a file label is printed and no decode error
\* leaves the driver.
C18_StdinAlwaysYieldsOneLine ==
  StdinRunOver =>
    /\ Len(reads) = 1
    /\ reads[1].mode = "stdin"
    /\ reads[1].size = args.sample_size
    /\ uncaught = "none"
    /\ Len(history) = 1
    /\ history[1].failure = "none"
    /\ stdout = <<PrintedLine(None, history[1].result, args.format)>>

\* the bytes a character takes in the file when the file is read as enc
CharBytes(c, enc) == IF c = "U+E9" /\ enc = "utf-8" THEN 2 ELSE 1

\* the bytes of the file that the decoded characters s came from
RECURSIVE ByteLen(_, _)
ByteLen(s, enc) ==
  IF s = <<>> THEN 0 ELSE CharBytes(Head(s), enc) + ByteLen(Tail(s), enc)

\* the bytes of the file behind the sample of the call under way
SampleBytes == ByteLen(pf.text, TierEncoding(pf.encoding, pf.tier))

\* C19 (as stated): the sample handed to detect_language is decoded from at
\* most the first B bytes of the file, B the clamped budget, also when a
\* character takes more than one byte, and the count the reader reports is
\* the number of bytes it consumed.
C19_SampleWithinByteBudget ==
  ppc = "detect" =>
    /\ SampleBytes <= pf.sample_size
    /\ pf.actual_bytes = SampleBytes

\* the `Read ... using ... encoding` traces written for the file of the call
\* under way
ReadTraces == {i \in 1..Len(diag) : diag[i][1] = "read" /\ diag[i][3] = pf.filepath}

\* C20 (as stated): the encoding named in the verbose trace of the read is
\* the encoding of the attempt that succeeded: the resolved one for the first
\* tier, utf-8 for the second, latin-1 for the last.
C20_ReportedEncodingSucceeded ==
  ppc = "detect" /\ pf.verbose /\ PRINT_WARNINGS =>
    /\ ReadTraces # {}
    /\ \A i \in ReadTraces : diag[i][4] = TierEncoding(pf.encoding, pf.tier)

---------------------------------------------------------------------------
(* Vocabulary of the claims about the order of the steps *)

\* the opens in text mode that the step under way adds to the reads
NewAttempts == SubSeq(reads', Len(reads) + 1, Len(reads'))

\* the cascade of process_file runs in this step
CascadeRuns == ppc = "open" /\ ppc' # "open"

\* the attempts of the step are the first k of resolved, utf-8, latin-1, each
\* made because the one before could not decode the file
AttemptsArePrefix ==
  LET tiers == <<pf.encoding, "utf-8", "latin-1">>
      new == NewAttempts
  IN /\ Len(new) <= 3
     /\ \A i \in 1..Len(new) :
          /\ new[i].mode = "r"
          /\ new[i].encoding = tiers[i]
          /\ i < Len(new) => ~Decodes(new[i].encoding, Files[pf.filepath])
     /\ ppc' = "detect" =>
          /\ Len(new) >= 1
          /\ Decodes(new[Len(new)].encoding, Files[pf.filepath])

\* C21 (as stated): the decode attempts on a file are a prefix of resolved
\* encoding, UTF-8, Latin-1, each tier tried only after the one before
\* failed, ending at the first success, and UTF-8 is never tried twice: a
\* file resolved as UTF-8 that fails goes directly to Latin-1.
C21_PrefixWithoutSecondUtf8 ==
  [][CascadeRuns =>
       /\ AttemptsArePrefix
       /\ \A i, j \in 1..Len(NewAttempts) :
            i # j /\ NewAttempts[i].encoding = "utf-8" =>
              NewAttempts[j].encoding # "utf-8"]_vars

\* C21 (amended): the decode attempts on a file are a prefix of resolved
\* encoding, UTF-8, Latin-1, each tier tried only after the one before
\* raised a decode error, ending at the first attempt that decodes; UTF-8
\* is tried again when the resolved encoding was UTF-8 already, so such a
\* file is attempted as utf-8, utf-8, latin-1.
C21_PrefixWithUtf8Retried ==
  [][CascadeRuns =>
       /\ AttemptsArePrefix
       /\ pf.encoding = "utf-8" /\ Len(NewAttempts) >= 2 =>
            NewAttempts[2].encoding = "utf-8" /\ Len(NewAttempts) = 3]_vars

C21_Witness ==
  /\ mpc = "idle"
  /\ ppc = "detect"
  /\ pf.filepath = <<"b">>
  /\ pf.encoding = "utf-8"
  /\ pf.tier = 3
  /\ Len(reads) = 4
  /\ reads[2].encoding = "utf-8"
  /\ reads[3].encoding = "utf-8"
  /\ reads[4].encoding = "latin-1"
  /\ pf.text = <<"x", "x", "U+FF">>

\* the sniffing of process_file ends in this step
SniffRuns == ppc = "sniff" /\ ppc' = "open"

\* C22: the resolver reads at most min(1024, clamped budget) bytes from the
\* head of the file, once, and the resolved encoding is the sniffed one only
\* when the sniffer is there, did not fail and reported a confidence
\* strictly above 0.7; in every other case it is utf-8.
C22_SniffedOnlyAboveThreshold ==
  [][SniffRuns =>
       /\ Len(NewAttempts) <= 1
       /\ \A i \in 1..Len(NewAttempts) :
            /\ NewAttempts[i].mode = "rb"
            /\ NewAttempts[i].size = (IF pf.sample_size < 1024 THEN pf.sample_size ELSE 1024)
            /\ NewAttempts[i].size <= pf.sample_size
       /\ pf'.detect_result \in SniffOutcomes
       /\ pf'.encoding =
            IF pf'.detect_result.kind = "detected"
                 /\ 10 * pf'.detect_result.confidence > 70
              THEN pf'.detect_result.encoding
              ELSE "utf-8"
       /\ pf'.detect_result.kind = "ImportError" => NewAttempts = <<>>
       /\ pf'.detect_result.kind = "Exception" => ~Exists(pf.filepath)]_vars

C22_Witness ==
  /\ ppc = "open"
  /\ mpc = "files"
  /\ pf.filepath = <<"u">>
  /\ pf.sample_size = 50
  /\ pf.encoding = "ascii"
  /\ pf.detect_result = [kind |-> "detected", encoding |-> "ascii", confidence |-> 10]
  /\ reads = <<[mode |-> "rb", size |-> 50, encoding |-> "bytes"]>>

\* the verbose option of the calls recorded in the history
VerboseOn == IF mpc = "idle" THEN ppc # "idle" /\ pf.verbose ELSE args.verbose

\* the diagnostics hold, in this order, a processing-start message about
\* file f, a read message about f and a detection-result message
TracedInOrder(f) ==
  \E p, r, d \in 1..Len(diag) :
     /\ p < r
     /\ r < d
     /\ diag[p][1] = "processing" /\ diag[p][2] = f
     /\ diag[r][1] = "read" /\ diag[r][3] = f
     /\ diag[d][1] = "result"

\* C23 (as stated): with verbose on, each file read successfully gets a
\* processing-start message, then a read message, then a detection-result
\* message on the diagnostic channel, all there when its line is printed.
C23_VerboseTraceInOrder ==
  VerboseOn =>
    \A i \in FileCalls :
       history[i].failure = "none" => TracedInOrder(history[i].filepath)

\* an error message about file f is among the diagnostics
ErrorReported(f) == \E j \in 1..Len(diag) : diag[j][1] = "error" /\ diag[j][2] = f

\* C24 (as stated): process_file on a file whose content is not valid UTF-8
\* reports an error for that file on the diagnostic channel.
C24_InvalidUtf8Reported ==
  \A i \in FileCalls :
     Exists(history[i].filepath) /\ ~Utf8Valid(Files[history[i].filepath]) =>
        ErrorReported(history[i].filepath)

\* C25: in a call of detect_language the emptiness check comes first, the
\* length check second and the classifier after both; the classifier runs
\* at most once, it runs exactly when the trimmed text has at least 5
\* characters (5 included), and it is handed the untrimmed text.
C25_ChecksThenClassifierOnce ==
  /\ [](/\ classify_calls <= 1
        /\ classify_calls = 1 => classify_arg = text
        /\ pc \in {"idle", "check_empty", "check_length", "classify"} =>
             classify_calls = 0
        /\ pc = "check_length" => ~IsBlank(text)
        /\ pc = "classify" => ~IsBlank(text) /\ TrimmedLen(text) >= 5
        /\ Done => (classify_calls = 1) = (~IsBlank(text) /\ TrimmedLen(text) >= 5))
  /\ [][/\ pc' = "check_length" => pc = "check_empty"
        /\ pc' = "classify" => pc = "check_length"
        /\ classify_calls' > classify_calls => pc = "classify"]_vars

C25_Witness ==
  /\ Done
  /\ text = Pad(1) \o Gap(5) \o Pad(1)
  /\ TrimmedLen(text) = 5
  /\ classify_calls = 1
  /\ classify_arg = Pad(1) \o Gap(5) \o Pad(1)

\* what a call without an allow-set returns for the text, the classifier's
\* answer and the lookup's outcome of the call under way
UnrestrictedResult ==
  IF IsBlank(text) \/ TrimmedLen(text) < 5 THEN FallbackResult
  ELSE IF classify_outcome = "raised" \/ results = <<>> THEN FallbackResult
  ELSE CASE lookup_outcome = "entry" ->
              <<results[1].lang, LanguageName(results[1].lang), results[1].prob>>
         [] lookup_outcome \in {"missing", "AttributeError"} ->
              <<results[1].lang, results[1].lang, results[1].prob>>
         [] OTHER -> FallbackResult

\* C26: filtering applies only to a non-empty allow-set: with the empty
\* allow-set a call returns what the call without an allow-set returns for
\* the same text, classifier output and lookup outcome, built from the first
\* candidate of the unfiltered sequence, and never the fallback of the
\* restricted path.
C26_EmptyAllowSetIsNoAllowSet ==
  Done /\ lang_set \in {NoLangSet, {}} =>
    /\ ret = UnrestrictedResult
    /\ ret_line \notin {121, 129}
    /\ lang_code # "" => lang_code = results[1].lang

C26_Witness ==
  /\ Done
  /\ lang_set = {}
  /\ results = << [lang |-> "fr", prob |-> ConfDen \div 2],
                  [lang |-> "en", prob |-> ConfDen] >>
  /\ lookup_outcome = "entry"
  /\ ret = <<"fr", "French", ConfDen \div 2>>

\* a step that reads from a file or from the input channel
Reads == Len(reads') > Len(reads)

\* a step of detect_language
Detects == pc' # pc /\ pc # "done"

\* a step that prints a result line or reports a failure for a source
Concludes == Len(history') > Len(history)

\* C27: the sources are processed one after the other: for each source the
\* reads come first, detection starts after the last read and the line is
\* printed after detection has returned; every step of file i, its line or
\* its failure report included, comes before the first read of file i+1.
C27_StrictlySequential ==
  /\ [](mpc = "files" =>
          /\ ppc \in {"sniff", "open", "detect"} => Len(history) = file_idx - 2
          /\ ppc \in {"idle", "done"} => Len(history) = file_idx - 1
          /\ pc # "idle" => ppc = "detect")
  /\ [][/\ ppc' = "sniff" => ppc \in {"idle", "done"} /\ pc = "idle"
        /\ ppc' = "open" => ppc = "sniff"
        /\ ppc' = "detect" => ppc \in {"open", "detect"}
        /\ Reads => /\ pc = "idle" /\ pc' = "idle"
                    /\ ppc \in {"sniff", "open"} \/ mpc = "stdin"
                    /\ ~Concludes \/ ppc' = "done"
        /\ Detects /\ mpc # "idle" => /\ ppc = "detect" \/ mpc = "stdin_detect"
                                      /\ ~Reads
                                      /\ ~Concludes
        /\ Len(stdout') > Len(stdout) /\ mpc # "idle" =>
             pc = "done" \/ (mpc' = "exited" /\ stdout' = <<Usage>>)
        /\ Concludes => Len(history') = Len(history) + 1 /\ ~Detects]_vars

C27_Witness ==
  /\ mpc = "files"
  /\ args.files = <<<<"l">>, <<"m">>>>
  /\ file_idx = 3
  /\ ppc = "open"
  /\ pc = "idle"
  /\ Len(history) = 1
  /\ Len(stdout) = 1
  /\ Len(reads) = 2

\* a source is taken up in this step
SourceStarts == ppc' = "sniff" /\ ppc # "sniff"

\* nothing of an earlier source is left in the locals of the reader and of
\* detect_language when a source is taken up
StartsAfresh ==
  /\ pf'.encoding = "utf-8"
  /\ pf'.detect_result.kind = "none"
  /\ pf'.tier = 0
  /\ pf'.text = <<>>
  /\ pf'.actual_bytes = 0
  /\ mpc = "files" =>
       /\ pf'.filepath = args.files[file_idx]
       /\ pf'.sample_size = args.sample_size
       /\ pf'.lang_set = args.lang_set
       /\ pf'.fallback_code = args.fallback_langcode
       /\ pf'.fallback_name = args.fallback_langname
       /\ pf'.output_format = args.format
       /\ pf'.verbose = args.verbose
  /\ pc' = "idle"
  /\ text' = None
  /\ results' = <<>>
  /\ lang_code' = ""
  /\ ret' = NoResult
  /\ stderr' = <<>>

\* the sample and the arguments of detection come from the source under way
\* and the options alone
SampleFromSourceAlone ==
  ppc = "detect" =>
    /\ pf.text = Take(Decode(TierEncoding(pf.encoding, pf.tier), Files[pf.filepath]),
                      ClampedTo(pf.requested))
    /\ pc # "idle" =>
         /\ text = pf.text
         /\ lang_set = pf.lang_set
         /\ fallback_code = pf.fallback_code
         /\ fallback_name = pf.fallback_name

\* C28 (as stated): the warning flag and the classifier seed are set once
\* at startup and never written afterwards, and nothing else is carried
\* from one source to the next.
C28_FlagAndSeedReadOnly ==
  /\ [](seed = 0 /\ SampleFromSourceAlone)
  /\ [][/\ PRINT_WARNINGS' = PRINT_WARNINGS
        /\ seed' = seed
        /\ SourceStarts => StartsAfresh]_vars

\* C28 (amended): the classifier seed is set once at import and never
\* written afterwards; the warning flag is set at import and written
\* afterwards only by set_warning_output, which a program calls between
\* calls of the module and which no step of detect_language, process_file
\* or main calls; nothing else is carried from one source to the next, so
\* the sample and the arguments of each detection come from that source and
\* the options alone.
C28_FlagWrittenOnlyBetweenCalls ==
  /\ [](seed = 0 /\ SampleFromSourceAlone)
  /\ [][/\ PRINT_WARNINGS' # PRINT_WARNINGS =>
             /\ mpc = "idle" /\ ppc = "idle" /\ pc = "idle"
             /\ \E b \in BOOLEAN : set_warning_output(b)
        /\ seed' = seed
        /\ SourceStarts => StartsAfresh]_vars

C28_Witness ==
  /\ mpc = "files"
  /\ args.files = <<<<"u">>, <<"b">>>>
  /\ file_idx = 3
  /\ ppc = "sniff"
  /\ pf.filepath = <<"b">>
  /\ pf.encoding = "utf-8"
  /\ Len(history) = 1
  /\ Len(reads) = 3
  /\ reads[2].encoding = "ascii"
  /\ reads[3].encoding = "utf-8"
  /\ seed = 0

\* what the test double returns for the arguments and the collaborators'
\* answers of the call under way
MockResult ==
  mock_detect_language(text, lang_set, <<fallback_code, fallback_name>>,
                       classify_outcome, results, lookup_outcome)

\* C29 (as stated): for every text, allow-set, fallback pair and classifier
\* output, detect_language of tests/mock_whatlang.py returns the triple that
\* detect_language of whatlang.py returns.
C29_MockReturnsTheSame ==
  Done => ret = MockResult

---------------------------------------------------------------------------
(* Vocabulary of the claim about what the warning flag can influence: the *)
(* results written as functions in which neither the flag nor the verbose *)
(* option occurs                                                           *)

\* the triple for the text, allow-set, fallback pair and collaborators'
\* answers of the call under way
ExpectedResult ==
  IF IsBlank(text) \/ TrimmedLen(text) < 5 THEN FallbackResult
  ELSE IF classify_outcome = "raised" \/ Eligible = {} THEN FallbackResult
  ELSE CASE lookup_outcome = "entry" ->
              <<results[FirstEligible].lang,
                LanguageName(results[FirstEligible].lang),
                results[FirstEligible].prob>>
         [] lookup_outcome \in {"missing", "AttributeError"} ->
              <<results[FirstEligible].lang, results[FirstEligible].lang,
                results[FirstEligible].prob>>
         [] OTHER -> FallbackResult

\* how the call of process_file under way ends, from the file, the sniffed
\* encoding, the format and the json capability
ExpectedFailure ==
  IF ~Exists(pf.filepath) THEN "FileNotFoundError"
  ELSE IF pf.detect_result.kind = "detected" /\ pf.detect_result.confidence > 7
          /\ pf.detect_result.encoding \notin {"ascii", "utf-8", "latin-1"}
    THEN "LookupError"
  ELSE IF pf.output_format = "json" /\ ~JSON_AVAILABLE THEN "NameError"
  ELSE "none"

\* the format of the lines of the history
FormatInUse == IF mpc = "idle" THEN pf.output_format ELSE args.format

\* C30: the warning flag and the verbose option reach the diagnostic channel
\* only: the triple detect_language returns, and the line process_file
\* prints or its absence, are given by the text or the file, the allow-set,
\* the fallback values, the format and the collaborators' answers, the same
\* with the flag on or off and with verbose on or off.
C30_FlagOnlyReachesDiagnostics ==
  /\ Done => ret = ExpectedResult
  /\ ppc = "done" =>
       /\ history[Len(history)].filepath = pf.filepath
       /\ history[Len(history)].failure = ExpectedFailure
       /\ stdout = LinesOf(history, FormatInUse)
  /\ ppc # "idle" /\ mpc = "idle" =>
       Len(stdout) = (IF ppc = "done" /\ ExpectedFailure = "none" THEN 1 ELSE 0)

C30_Witness ==
  /\ mpc = "idle"
  /\ ppc = "done"
  /\ ~PRINT_WARNINGS
  /\ pf.verbose
  /\ pf.filepath = <<"t">>
  /\ pf.output_format = "json"
  /\ diag = <<>>
  /\ Len(stdout) = 1
  /\ history[1].result[1] = "fr"

====
